---------------------------- MODULE Spec2Model ----------------------------
(***************************************************************************)
(* Model of src/testsFactory.ts: the TestsFactory harness that crawls a    *)
(* directory of mutation test cases, registers suites and tests with the   *)
(* reporting framework and runs one test case per admitted leaf.           *)
(*                                                                         *)
(* Paths are sequences of segments.  The hierarchy crawler, describeTests  *)
(* and runTestCase are imported by testsFactory.ts from sibling modules;   *)
(* they are modelled from the specification's sections 4.2 - 4.4.          *)
(***************************************************************************)
EXTENDS Naturals, Sequences, FiniteSets

VARIABLES
    settings,           \* TestsFactory.settings
    hierarchyCrawler,   \* TestsFactory.hierarchyCrawler: its indicating file name
    fs,                 \* the file system the crawler reads
    casesPath,          \* the argument of the describe call, <<>> before it
    hierarchy,          \* what hierarchyCrawler.crawl returned to describe
    phase,              \* "constructed" | "described" | "threw"
    thrown,             \* error thrown by describe: "none" | "NotFound"
    console,            \* lines written by console.log
    registered,         \* registration events received by the reporting framework
    status,             \* per registration event: state of the registered test
    calls               \* per registration event: the runTestCase invocations

vars == <<settings, hierarchyCrawler, fs, casesPath, hierarchy, phase, thrown, console, registered, status, calls>>

----------------------------------------------------------------------------
(* Bounds and input universes *)

\* Largest number of directories below the cases directory.
MaxDirs == 4

\* The same, where every directory may also hold part of a case's files.
MaxCrawlDirs == 3

\* Directory base names, in the crawler's enumeration order.
LabelOrder == <<"a", "b">>

Labels == {LabelOrder[i] : i \in 1..Len(LabelOrder)}

\* The casesPath argument of describe, as the caller writes it ("./tc").
CasesPath == <<".", "tc">>

OriginalName == "original.txt"

ExpectedName == "expected.txt"

ActualName == "actual.txt"

SettingsName == "settings.json"

\* settings.includes left out by the caller.
NoIncludes == [defined |-> FALSE, patterns |-> <<>>]

Includes(ps) == [defined |-> TRUE, patterns |-> ps]

\* An include pattern is a literal: it matches a qualified name that
\* contains its labels as a contiguous run (RegExp.test of a literal).
Configs ==
    { [accept |-> TRUE, includes |-> NoIncludes],
      [accept |-> FALSE, includes |-> Includes(<<>>)],
      [accept |-> TRUE, includes |-> Includes(<< <<"a">> >>)],
      [accept |-> FALSE, includes |-> Includes(<< <<"zz">>, <<"a", "b">> >>)] }

SettingsOf(c) ==
    [ accept |-> c.accept, actual |-> ActualName, expected |-> ExpectedName,
      original |-> OriginalName, settings |-> SettingsName, includes |-> c.includes ]

\* What a directory may hold besides its subdirectories: nothing, or the
\* four files of a case.
FileKinds ==
    { {}, {OriginalName, ExpectedName, ActualName, SettingsName} }

\* The same, and directories that hold only part of a case's files.
PartialFileKinds ==
    FileKinds \cup { {OriginalName}, {ExpectedName, ActualName, SettingsName} }

----------------------------------------------------------------------------
(* path.join *)

RECURSIVE NormalizeFrom(_, _)
NormalizeFrom(done, rest) ==
    IF rest = <<>> THEN done
    ELSE LET s == Head(rest) IN
         IF s = "." THEN NormalizeFrom(done, Tail(rest))
         ELSE IF s = ".." /\ done # <<>> /\ done[Len(done)] # ".."
              THEN NormalizeFrom(SubSeq(done, 1, Len(done) - 1), Tail(rest))
              ELSE NormalizeFrom(Append(done, s), Tail(rest))

Normalize(p) == NormalizeFrom(<<>>, p)

PathJoin(a, b) == Normalize(a \o b)

\* The directory the operating system resolves CasesPath to.
RootDir == Normalize(CasesPath)

----------------------------------------------------------------------------
(* File systems *)

\* The directory trees of at most n directories below the root, each a
\* prefix-closed set of relative paths, grown one directory at a time.
RECURSIVE Grow(_, _)
Grow(trees, n) ==
    IF n = 0 THEN trees
    ELSE Grow(trees \cup UNION { { t \cup {Append(p, l)} : p \in t, l \in Labels } : t \in trees },
              n - 1)

TreesUpTo(n) == Grow({ {<<>>} }, n)

\* The directories of tree t, as the operating system names them.
DirsOf(t) == { RootDir \o p : p \in t }

FileSystem(t, f) == [dirs |-> DirsOf(t), files |-> f]

\* The casesPath arguments tried: the cases directory and a path that
\* names no directory.
CasesPaths == {CasesPath, <<"missing">>}

----------------------------------------------------------------------------
(* hierarchyCrawler.ts: HierarchyCrawler.crawl *)

IsLeaf(f, indicator, dir) == indicator \in f.files[dir]

RECURSIVE CrawlDir(_, _, _, _)
CrawlDir(f, indicator, label, directoryPath) ==
    LET dir == Normalize(directoryPath) IN
    IF IsLeaf(f, indicator, dir)
    THEN [label |-> label, directoryPath |-> directoryPath, kind |-> "Case",
          children |-> <<>>]
    ELSE LET kids == SelectSeq(LabelOrder, LAMBDA l : Append(dir, l) \in f.dirs) IN
         [label |-> label, directoryPath |-> directoryPath, kind |-> "Suite",
          children |-> [k \in 1..Len(kids) |->
                          CrawlDir(f, indicator, kids[k], PathJoin(directoryPath, <<kids[k]>>))]]

NoHierarchy == [label |-> "", directoryPath |-> <<>>, kind |-> "None", children |-> <<>>]

Crawl(f, indicator, rootLabel, rootPath) ==
    IF Normalize(rootPath) \notin f.dirs
    THEN [error |-> "NotFound", hierarchy |-> NoHierarchy]
    ELSE [error |-> "none", hierarchy |-> CrawlDir(f, indicator, rootLabel, rootPath)]

----------------------------------------------------------------------------
(* describeTests.ts: the inclusion filter and the recursive describer *)

Matches(pattern, qualifiedName) ==
    \E k \in 0..Len(qualifiedName) :
        /\ k + Len(pattern) <= Len(qualifiedName)
        /\ SubSeq(qualifiedName, k + 1, k + Len(pattern)) = pattern

IsIncluded(qualifiedName, includes) ==
    \/ ~includes.defined
    \/ Len(includes.patterns) = 0
    \/ \E i \in 1..Len(includes.patterns) : Matches(includes.patterns[i], qualifiedName)

\* A registration: the name the framework is given and, for the callback
\* it keeps, the node the callback was made for (its children left out).
Event(ev, h, qualifiedName, skipped) ==
    [ev |-> ev, name |-> h.label, node |-> [h EXCEPT !.children = <<>>],
     qualifiedName |-> qualifiedName, skipped |-> skipped]

\* Faulty variant: a leaf the filter rejects is not registered at all.
DescribeCase_OmitsFiltered(h, includes, qualifiedName) ==
    IF IsIncluded(qualifiedName, includes)
    THEN << Event("test", h, qualifiedName, FALSE) >>
    ELSE <<>>

DescribeCase(h, includes, qualifiedName) ==
    << Event("test", h, qualifiedName, ~IsIncluded(qualifiedName, includes)) >>

RECURSIVE DescribeTests(_, _, _)
RECURSIVE DescribeChildren(_, _, _)
DescribeTests(h, includes, prefix) ==
    LET qualifiedName == Append(prefix, h.label) IN
    IF h.kind = "Case"
    THEN DescribeCase(h, includes, qualifiedName)
    ELSE << Event("suite", h, qualifiedName, FALSE) >>
         \o DescribeChildren(h.children, includes, qualifiedName)
         \o << Event("end", h, qualifiedName, FALSE) >>

DescribeChildren(children, includes, prefix) ==
    IF children = <<>> THEN <<>>
    ELSE DescribeTests(Head(children), includes, prefix)
         \o DescribeChildren(Tail(children), includes, prefix)

\* What the reporting framework holds for each registration event.
InitialStatus(e) ==
    IF e.ev = "test" THEN (IF e.skipped THEN "skipped" ELSE "pending") ELSE "scope"

----------------------------------------------------------------------------
(* testsFactory.ts *)

\* Faulty variant: the crawler is told to look for the expected file.
HierarchyCrawlerIndicator_Expected(s) == s.expected

\* constructor: new HierarchyCrawler(this.settings.original)
HierarchyCrawlerIndicator(s) == s.original

\* Faulty variant: the root is labelled by the base name of casesPath.
DescribeRootLabel_BaseName == CasesPath[Len(CasesPath)]

\* describe: crawl("cases", casesPath)
DescribeRootLabel == "cases"

\* Faulty variant: describe forgets to hand the includes on.
DescribeIncludes_Dropped(s) == NoIncludes

\* describe: the includes handed to describeTests
DescribeIncludes(s) == s.includes

\* describe: console.log of the active patterns
DescribeLog(s) ==
    IF s.includes.defined /\ Len(s.includes.patterns) # 0
    THEN << <<"Including only tests that match any of:", s.includes.patterns>> >>
    ELSE <<>>

\* Faulty variant: the describeTests call sits inside the `if` that logs
\* the patterns, so an unfiltered describe registers nothing.
DescribeOutcome_OnlyWhenFiltered(s, indicator, f, path) ==
    LET crawled == Crawl(f, indicator, DescribeRootLabel, path) IN
    IF crawled.error # "none"
    THEN [thrown |-> crawled.error, console |-> DescribeLog(s),
          hierarchy |-> NoHierarchy, registered |-> <<>>]
    ELSE [thrown |-> "none", console |-> DescribeLog(s),
          hierarchy |-> crawled.hierarchy,
          registered |-> IF DescribeLog(s) = <<>> THEN <<>>
                         ELSE DescribeTests(crawled.hierarchy, DescribeIncludes(s), <<>>)]

\* Faulty variant: the root scope is opened first and the crawl happens
\* inside it, so a missing casesPath is found with a suite registered.
DescribeOutcome_CrawlInsideScope(s, indicator, f, path) ==
    LET crawled == Crawl(f, indicator, DescribeRootLabel, path) IN
    IF crawled.error # "none"
    THEN [thrown |-> crawled.error, console |-> DescribeLog(s),
          hierarchy |-> NoHierarchy,
          registered |-> << Event("suite", NoHierarchy, <<DescribeRootLabel>>, FALSE) >>]
    ELSE [thrown |-> "none", console |-> DescribeLog(s),
          hierarchy |-> crawled.hierarchy,
          registered |-> DescribeTests(crawled.hierarchy, DescribeIncludes(s), <<>>)]

\* describe: the log, then the crawl (an argument of the describeTests call,
\* so evaluated before describeTests is entered), then the registration.
DescribeOutcome(s, indicator, f, path) ==
    LET crawled == Crawl(f, indicator, DescribeRootLabel, path) IN
    IF crawled.error # "none"
    THEN [thrown |-> crawled.error, console |-> DescribeLog(s),
          hierarchy |-> NoHierarchy, registered |-> <<>>]
    ELSE [thrown |-> "none", console |-> DescribeLog(s),
          hierarchy |-> crawled.hierarchy,
          registered |-> DescribeTests(crawled.hierarchy, DescribeIncludes(s), <<>>)]

\* Faulty variant: the actual and expected paths are swapped.
createTestCaseSettings_Swapped(casePath, s) ==
    [ accept |-> s.accept,
      actual |-> PathJoin(casePath, <<s.expected>>),
      expected |-> PathJoin(casePath, <<s.actual>>),
      original |-> PathJoin(casePath, <<s.original>>),
      settings |-> PathJoin(casePath, <<s.settings>>) ]

createTestCaseSettings(casePath, s) ==
    [ accept |-> s.accept,
      actual |-> PathJoin(casePath, <<s.actual>>),
      expected |-> PathJoin(casePath, <<s.expected>>),
      original |-> PathJoin(casePath, <<s.original>>),
      settings |-> PathJoin(casePath, <<s.settings>>) ]

\* Faulty variant: runTest starts the test case twice.
RunTest_Twice(h, s) ==
    << [settings |-> createTestCaseSettings(h.directoryPath, s), result |-> "pending"],
       [settings |-> createTestCaseSettings(h.directoryPath, s), result |-> "pending"] >>

\* runTest up to its await: the runTestCase invocations it makes.
RunTest(h, s) ==
    << [settings |-> createTestCaseSettings(h.directoryPath, s),
        result |-> "pending"] >>

\* Faulty variant: runTest catches the rejection and resolves.
RunTestResult_Swallowed(outcome) == "resolved"

\* runTest after its await: the promise it returns settles as runTestCase's did.
RunTestResult(outcome) == outcome

\* describe: the runner handed to describeTests
DescribeRunner(h, s) == RunTest(h, s)

----------------------------------------------------------------------------
(* State machine *)

\* The state after the constructor, over the file systems of at most n
\* directories whose contents are drawn from kinds.
Constructed(n, kinds) ==
    /\ settings \in {SettingsOf(c) : c \in Configs}
    /\ hierarchyCrawler = HierarchyCrawlerIndicator(settings)
    /\ \E t \in TreesUpTo(n) : \E f \in [DirsOf(t) -> kinds] :
           fs = FileSystem(t, f)
    /\ casesPath = <<>>
    /\ hierarchy = NoHierarchy
    /\ phase = "constructed"
    /\ thrown = "none"
    /\ console = <<>>
    /\ registered = <<>>
    /\ status = <<>>
    /\ calls = <<>>

\* TestsFactory.describe(casesPath), also the body of
\* describeMutationTestCases after it has constructed the factory.  The
\* outcome is computed once and then stored.
Describe(path) ==
    /\ phase = "constructed"
    /\ casesPath' = path
    /\ \E out \in {DescribeOutcome(settings, hierarchyCrawler, fs, path)} :
       /\ thrown' = out.thrown
       /\ hierarchy' = out.hierarchy
       /\ console' = console \o out.console
       /\ registered' = out.registered
       /\ status' = [i \in 1..Len(out.registered) |-> InitialStatus(out.registered[i])]
       /\ calls' = [i \in 1..Len(out.registered) |-> <<>>]
       /\ phase' = IF out.thrown = "none" THEN "described" ELSE "threw"
    /\ UNCHANGED <<settings, hierarchyCrawler, fs>>

\* The framework runs the body of registered test i: the runner is called
\* with the test's hierarchy node and suspends at its await.
StartTest(i) ==
    /\ phase = "described"
    /\ status[i] = "pending"
    /\ status' = [status EXCEPT ![i] = "running"]
    /\ calls' = [calls EXCEPT ![i] = @ \o DescribeRunner(registered[i].node, settings)]
    /\ UNCHANGED <<settings, hierarchyCrawler, fs, casesPath, hierarchy, phase, thrown, console,
                   registered>>

\* runTestCase settles; runTest resumes and the test passes or fails.
FinishTest(i, outcome) ==
    /\ phase = "described"
    /\ status[i] = "running"
    /\ calls' = [calls EXCEPT ![i] = [k \in 1..Len(@) |-> [@[k] EXCEPT !.result = outcome]]]
    /\ status' = [status EXCEPT
                    ![i] = IF RunTestResult(outcome) = "rejected" THEN "failed" ELSE "passed"]
    /\ UNCHANGED <<settings, hierarchyCrawler, fs, casesPath, hierarchy, phase, thrown, console,
                   registered>>

Init == Constructed(MaxDirs, FileKinds)

Next ==
    \/ \E path \in CasesPaths : Describe(path)
    \/ \E i \in DOMAIN registered : StartTest(i)
    \/ \E i \in DOMAIN registered : \E outcome \in {"resolved", "rejected"} :
           FinishTest(i, outcome)

Spec == Init /\ [][Next]_vars

\* The describe call alone, over directories that may hold any part of a
\* case's files.
CrawlInit == Constructed(MaxCrawlDirs, PartialFileKinds)

CrawlNext == \E path \in CasesPaths : Describe(path)

CrawlSpec == CrawlInit /\ [][CrawlNext]_vars

----------------------------------------------------------------------------
(* Vocabulary of the properties *)

Described == phase = "described"

RECURSIVE Nodes(_)
Nodes(h) == {h} \cup UNION { Nodes(h.children[k]) : k \in DOMAIN h.children }

Suites == { n \in Nodes(hierarchy) : n.kind = "Suite" }

Cases == { n \in Nodes(hierarchy) : n.kind = "Case" }

FilesIn(n) == fs.files[Normalize(n.directoryPath)]

RequiredFiles == {settings.original, settings.expected, settings.actual, settings.settings}

\* Root-to-node labels: "cases", then the base names below the cases directory.
QualifiedName(n) ==
    LET d == Normalize(n.directoryPath) IN <<"cases">> \o SubSeq(d, Len(RootDir) + 1, Len(d))

FilterIsEmpty == ~settings.includes.defined \/ settings.includes.patterns = <<>>

SomePatternMatches(n) ==
    \E i \in DOMAIN settings.includes.patterns :
        Matches(settings.includes.patterns[i], QualifiedName(n))

Admitted(n) == FilterIsEmpty \/ SomePatternMatches(n)

\* Node n as a registration event names it.
At(n) == [n EXCEPT !.children = <<>>]

EventsOf(n, ev) ==
    { i \in DOMAIN registered : registered[i].ev = ev /\ registered[i].node = At(n) }

Settled(i) == status[i] \in {"passed", "failed"}

AllSettled == \A i \in DOMAIN registered : status[i] \notin {"pending", "running"}

\* The registration events that open and close node n.
First(n) == CHOOSE i \in DOMAIN registered :
                registered[i].ev \in {"suite", "test"} /\ registered[i].node = At(n)

Last(n) == CHOOSE i \in DOMAIN registered :
               registered[i].ev \in {"end", "test"} /\ registered[i].node = At(n)

LabelOf(n) ==
    IF n.directoryPath = casesPath THEN "cases" ELSE n.directoryPath[Len(n.directoryPath)]

----------------------------------------------------------------------------
C2_AdmittedIffIncluded ==
    Described =>
        /\ \A i \in DOMAIN registered : registered[i].ev = "test" =>
              /\ status[i] # "skipped" <=> Admitted(registered[i].node)
              /\ calls[i] # <<>> => Admitted(registered[i].node)
              /\ AllSettled => (calls[i] # <<>> <=> Admitted(registered[i].node))
        /\ FilterIsEmpty =>
              { registered[i].node : i \in { j \in DOMAIN registered :
                    registered[j].ev = "test" /\ status[j] # "skipped" } } = Cases

C2_Witness ==
    /\ Described
    /\ AllSettled
    /\ Len(settings.includes.patterns) = 2
    /\ \E i \in DOMAIN registered : Settled(i) /\ ~Matches(settings.includes.patterns[1],
                                                       QualifiedName(registered[i].node))
    /\ \E i \in DOMAIN registered : status[i] = "skipped"

(* C3: runTestCase is invoked exactly once for each admitted leaf (at most *)
(* once while the framework has not run it yet), never for a leaf the      *)
(* filter does not admit and never for a Suite node.                       *)
C3_RunnerOncePerAdmittedLeaf ==
    Described =>
        /\ \A n \in Cases : Cardinality(EventsOf(n, "test")) = 1
        /\ \A i \in DOMAIN registered :
              /\ registered[i].ev # "test" => calls[i] = <<>>
              /\ status[i] \in {"skipped", "pending"} => calls[i] = <<>>
              /\ ~Admitted(registered[i].node) => calls[i] = <<>>
              /\ status[i] \in {"running", "passed", "failed"} =>
                    Len(calls[i]) = 1
              /\ (AllSettled /\ registered[i].ev = "test" /\ Admitted(registered[i].node)) =>
                    Len(calls[i]) = 1
        /\ \A n \in Suites : \A i \in DOMAIN registered : \A k \in DOMAIN calls[i] :
              calls[i][k].settings.original # PathJoin(n.directoryPath, <<settings.original>>)

C3_Witness ==
    /\ Described
    /\ AllSettled
    /\ \E i \in DOMAIN registered : Settled(i) /\ calls[i] # <<>>
    /\ \E i \in DOMAIN registered : status[i] = "skipped" /\ calls[i] = <<>>
    /\ Cardinality(Suites) > 1

(* C4: every Suite node of the crawled hierarchy is registered as a        *)
(* container, exactly once, whatever the filter admits below it; the       *)
(* registered suites are those an unfiltered describe registers.           *)
C4_SuitesAlwaysRegistered ==
    Described =>
        /\ \A n \in Suites :
              /\ Cardinality(EventsOf(n, "suite")) = 1
              /\ Cardinality(EventsOf(n, "end")) = 1
        /\ { registered[i].node : i \in { j \in DOMAIN registered : registered[j].ev = "suite" } }
              = { At(n) : n \in Suites }
        /\ LET unfiltered == DescribeTests(hierarchy, NoIncludes, <<>>) IN
           SelectSeq(registered, LAMBDA e : e.ev # "test")
              = SelectSeq(unfiltered, LAMBDA e : e.ev # "test")

C4_Witness ==
    /\ Described
    /\ ~FilterIsEmpty
    /\ \E n \in Suites : n.children = <<>>
    /\ \E n \in Suites :
          /\ n.children # <<>>
          /\ \A m \in Nodes(n) : m.kind = "Case" => ~Admitted(m)
          /\ \E m \in Nodes(n) : m.kind = "Case"

C6_NotFoundBeforeRegistration ==
    (phase # "constructed" /\ Normalize(casesPath) \notin fs.dirs) =>
        /\ thrown = "NotFound"
        /\ phase = "threw"
        /\ registered = <<>>
        /\ calls = <<>>
        /\ ~ENABLED Next

C6_Witness ==
    /\ phase = "threw"
    /\ Normalize(casesPath) \notin fs.dirs
    /\ \E d \in fs.dirs : settings.original \in fs.files[d]

(* C7: a runner that fails fails its own test and nothing else: a test is  *)
(* failed iff its runTestCase rejected, every node stays registered, and   *)
(* every other admitted leaf can still be run and can still settle.        *)
C7_RunnerFailureIsolated ==
    Described =>
        /\ \A i \in DOMAIN registered :
              /\ status[i] = "failed" <=>
                    (calls[i] # <<>> /\ \A k \in DOMAIN calls[i] : calls[i][k].result = "rejected")
              /\ status[i] = "passed" <=>
                    (calls[i] # <<>> /\ \A k \in DOMAIN calls[i] : calls[i][k].result = "resolved")
        /\ (\E i \in DOMAIN registered : status[i] = "failed") =>
              /\ \A n \in Suites : EventsOf(n, "suite") # {} /\ EventsOf(n, "end") # {}
              /\ \A n \in Cases : EventsOf(n, "test") # {}
              /\ \A j \in DOMAIN registered :
                    /\ (registered[j].ev = "test" /\ Admitted(registered[j].node)) =>
                          (calls[j] # <<>> \/ ENABLED StartTest(j))
                    /\ status[j] = "running" =>
                          (ENABLED FinishTest(j, "resolved") /\ ENABLED FinishTest(j, "rejected"))

C7_Witness ==
    /\ Described
    /\ \E i, j \in DOMAIN registered :
          /\ status[i] = "failed"
          /\ status[j] = "pending"
          /\ ENABLED StartTest(j)

(* C9: registration is well nested and in crawl order: a Suite node opens  *)
(* one scope named by its label ("cases" for the root) and closes it after *)
(* all its children, each child is registered inside its parent's scope    *)
(* under its own label, and siblings are registered in the order of the    *)
(* crawler's children.                                                     *)
C9_RegistrationNestedInCrawlOrder ==
    Described =>
        /\ Len(registered) = 2 * Cardinality(Suites) + Cardinality(Cases)
        /\ \A n \in Suites :
              /\ Cardinality(EventsOf(n, "suite")) = 1
              /\ Cardinality(EventsOf(n, "end")) = 1
              /\ EventsOf(n, "test") = {}
              /\ \A open \in EventsOf(n, "suite") : \A close \in EventsOf(n, "end") :
                    /\ open < close
                    /\ \A k \in DOMAIN n.children :
                          \E first \in {First(n.children[k])} :
                              /\ open < first
                              /\ Last(n.children[k]) < close
                              /\ k > 1 => Last(n.children[k - 1]) < first
        /\ \A n \in Cases :
              /\ Cardinality(EventsOf(n, "test")) = 1
              /\ EventsOf(n, "suite") \cup EventsOf(n, "end") = {}
        /\ \A i \in DOMAIN registered : registered[i].name = LabelOf(registered[i].node)
        /\ registered[1].node = At(hierarchy)
        /\ registered[Len(registered)].node = At(hierarchy)

C9_Witness ==
    /\ Described
    /\ Len(hierarchy.children) = 2
    /\ \E k \in DOMAIN hierarchy.children :
          /\ hierarchy.children[k].kind = "Suite"
          /\ hierarchy.children[k].children # <<>>

\* Every record made so far is the one createTestCaseSettings owes its node.
C10_RecordJoinsNodePath ==
    /\ hierarchyCrawler = settings.original
    /\ \A i \in DOMAIN calls :
          /\ Len(calls[i]) <= 1
          /\ \A k \in DOMAIN calls[i] :
                LET made == calls[i][k].settings
                    dir == registered[i].node.directoryPath
                IN /\ registered[i].node \in Cases
                   /\ made.actual = PathJoin(dir, <<settings.actual>>)
                   /\ made.expected = PathJoin(dir, <<settings.expected>>)
                   /\ made.original = PathJoin(dir, <<settings.original>>)
                   /\ made.settings = PathJoin(dir, <<settings.settings>>)
                   /\ made.accept = settings.accept
                   /\ DOMAIN made = {"accept", "actual", "expected", "original", "settings"}

(* C10: the record handed to runTestCase joins the directoryPath of the    *)
(* node given to the runner with each configured file name, carries the    *)
(* configured accept, is built once per invocation, and no step changes    *)
(* the harness configuration.                                              *)
C10_SettingsRecordOfTheNode ==
    /\ []C10_RecordJoinsNodePath
    /\ [][settings' = settings /\ hierarchyCrawler' = hierarchyCrawler]_vars

C10_Witness ==
    /\ Described
    /\ hierarchy.kind = "Case"
    /\ \E i \in DOMAIN calls : \E k \in DOMAIN calls[i] :
          /\ calls[i][k].settings.accept = FALSE
          /\ calls[i][k].result = "resolved"
          /\ calls[i][k].settings.actual # casesPath \o <<settings.actual>>

============================================================================
